---- MODULE Spec2Model ----
(***************************************************************************)
(* Schedule validation and version store of the Stir Trek 2026 schedule    *)
(* builder (schedule_builder.py).                                          *)
(*                                                                         *)
(* A schedule is a JSON object: slot name -> array of session ids.  A JSON *)
(* id is either a number [int |-> n] or a string [str |-> s]; a Python str *)
(* is a TLA+ string.  The catalog is the ordered list of session records   *)
(* returned by load_sessions.                                              *)
(***************************************************************************)
EXTENDS Integers, Sequences, FiniteSets, TLC

VARIABLES sessions, multi_speakers, schedule, ok, errors, stats, lastOp, edits,
          schedule_json, swap,
          store, torn, returned, loaded, clock,
          pc, mem, stale,
          page, curIdx, showDiff, diffs

vars == <<sessions, multi_speakers, schedule, ok, errors, stats, lastOp, edits,
          schedule_json, swap,
          store, torn, returned, loaded, clock,
          pc, mem, stale,
          page, curIdx, showDiff, diffs>>

\* main: the catalog, the proposal and what was computed from them;
\* output/schedule.json, and the latest run of process_swap.py
valVars == <<sessions, multi_speakers, schedule, ok, errors, stats, lastOp, edits,
             schedule_json, swap>>
\* output/versions.json, and what the calls on it returned
storeVars == <<store, torn, returned, loaded, clock>>
\* a save_version call in progress, per writing process; stale records that
\* some call has loaded the file while another call was between its load and
\* its rewrite
procVars == <<pc, mem, stale>>
\* the generated page (schedule.html) in a browser
viewVars == <<page, curIdx, showDiff, diffs>>

(***************************************************************************)
(* Program constants                                                       *)
(***************************************************************************)
\* validate_schedule: len(schedule) != 7
ExpectedSlots == 7
\* validate_schedule: len(slot_ids) != 8
ExpectedRooms == 8
\* build_prompt: "Assign all 56 sessions to 7 time slots with 8 rooms each."
NumSessions == 56

(***************************************************************************)
(* Bounds of the exploration                                               *)
(***************************************************************************)
\* number of successive schedule proposals examined after the first one
MaxEdits == 1
\* a proposal differs from its predecessor in the first EditCells cells of
\* the list (slot_1, 1), (slot_1, 2), (slot_2, 1), (slot_2, 2), (slot_3, 1) ...
EditCells == 3

(***************************************************************************)
(* Slot names.  KeyOrder lists every slot key the model uses in the order  *)
(* Python's sorted() puts these strings (code-point order: "slot_10" sorts *)
(* between "slot_1" and "slot_2").                                         *)
(***************************************************************************)
SlotNames == <<"slot_1", "slot_2", "slot_3", "slot_4", "slot_5", "slot_6", "slot_7">>

KeyOrder == <<"slot_1", "slot_10", "slot_2", "slot_3", "slot_4", "slot_5",
              "slot_6", "slot_7", "slot_8">>

ForeignKeys == {"slot_10", "slot_8"}

\* the n-th cell (slot name, position) a proposal may change
Cell(n) == <<SlotNames[((n - 1) \div 2) + 1], ((n - 1) % 2) + 1>>

EditKeys == {Cell(n)[1] : n \in 1..EditCells}

Range(s) == {s[i] : i \in DOMAIN s}

\* slip: the keys ordered by their number
sorted_keys_numeric(sched) ==
    SelectSeq(SlotNames \o <<"slot_8", "slot_10">>, LAMBDA k : k \in DOMAIN sched)

\* sorted(schedule.keys())
sorted_keys(sched) == SelectSeq(KeyOrder, LAMBDA k : k \in DOMAIN sched)

(***************************************************************************)
(* JSON ids and str()                                                      *)
(***************************************************************************)
JInt(n) == [int |-> n]
JStr(s) == [str |-> s]

\* str(sid): the decimal numeral of a number, a string unchanged
str(sid) == IF "int" \in DOMAIN sid THEN ToString(sid.int) ELSE sid.str

\* [str(sid) for sid in v]
str_ids(v) == [i \in 1..Len(v) |-> str(v[i])]

\* main: schedule = {k: [str(sid) for sid in v] for k, v in schedule.items()}
normalize_ids(sched) ==
    [k \in DOMAIN sched |-> [i \in 1..Len(sched[k]) |-> JStr(str(sched[k][i]))]]

(***************************************************************************)
(* The catalog (load_sessions): ids "1".."56"; the fields the engine reads *)
(* are id, speakers and track.                                             *)
(***************************************************************************)
CatalogKinds == {"solo", "pair", "trio", "unsorted"}

\* "solo": every session has its own speaker; "pair": sessions "1" and "2"
\* share a speaker; "trio": "1", "2" and "3" do; "unsorted": as "pair", with
\* the row of session "2" above the row of session "1" in the workbook
SharedSpeaker(kind) ==
    IF kind = "solo" THEN {} ELSE IF kind = "trio" THEN {1, 2, 3} ELSE {1, 2}

\* the Session Id of the i-th row
RowId(kind, i) ==
    IF kind = "unsorted" /\ i \in {1, 2} THEN 3 - i ELSE i

SpeakerName(kind, i) ==
    IF i \in SharedSpeaker(kind) THEN "Ada Lovelace" ELSE "Speaker " \o ToString(i)

TrackName(i) == "Track " \o ToString(i % 5)

Catalog(kind) ==
    [i \in 1..NumSessions |->
        [id |-> ToString(RowId(kind, i)),
         speakers |-> SpeakerName(kind, RowId(kind, i)),
         track |-> TrackName(RowId(kind, i))]]

(***************************************************************************)
(* find_multi_session_speakers                                             *)
(***************************************************************************)
\* speaker_sessions once the loop has run: every speaker string met is a
\* key, and its list holds, in the order of iteration, the id of each session
\* that carries it (speaker_sessions[s["speakers"]].append(s["id"]))
speaker_sessions(sess) ==
    [k \in {sess[i].speakers : i \in DOMAIN sess} |->
        LET rows == SelectSeq(sess, LAMBDA s : s.speakers = k)
        IN [j \in 1..Len(rows) |-> rows[j].id]]

\* slip: every speaker kept
find_multi_session_speakers_any(sess) ==
    LET d == speaker_sessions(sess)
    IN [k \in {x \in DOMAIN d : Len(d[x]) >= 1} |-> d[k]]

\* {k: v for k, v in speaker_sessions.items() if len(v) > 1}
find_multi_session_speakers(sess) ==
    LET d == speaker_sessions(sess)
    IN [k \in {x \in DOMAIN d : Len(d[x]) > 1} |-> d[k]]

(***************************************************************************)
(* validate_schedule                                                       *)
(***************************************************************************)
\* session_map = {s["id"]: s for s in sessions}  (a later record wins)
session_map(sess) ==
    [sid \in {sess[i].id : i \in DOMAIN sess} |->
        sess[CHOOSE i \in DOMAIN sess :
                /\ sess[i].id = sid
                /\ \A j \in DOMAIN sess : sess[j].id = sid => j <= i]]

\* all_ids = set(session_map.keys())
all_ids(smap) == DOMAIN smap

SlotCountError(n) == [kind |-> "slot_count", got |-> n]
SlotSizeError(slot_name, n) == [kind |-> "slot_size", slot |-> slot_name, got |-> n]
SpeakerError(slot_name, speaker) ==
    [kind |-> "speaker_twice", slot |-> slot_name, speaker |-> speaker]
UnknownIdError(slot_name, sid) == [kind |-> "unknown_id", slot |-> slot_name, sid |-> sid]
MissingError(ids) == [kind |-> "missing", ids |-> ids]
ExtraError(ids) == [kind |-> "extra", ids |-> ids]
DuplicateError(ids) == [kind |-> "duplicate", ids |-> ids]

\* slip: the slot count compared with the room count
slot_count_check_rooms(sched) ==
    IF Cardinality(DOMAIN sched) # ExpectedRooms
    THEN <<SlotCountError(Cardinality(DOMAIN sched))>>
    ELSE <<>>

\* if len(schedule) != 7: errors.append(...)
slot_count_check(sched) ==
    IF Cardinality(DOMAIN sched) # ExpectedSlots
    THEN <<SlotCountError(Cardinality(DOMAIN sched))>>
    ELSE <<>>

\* slip: only an over-full slot is flagged
slot_size_check_over(slot_name, slot_ids) ==
    IF Len(slot_ids) > ExpectedRooms
    THEN <<SlotSizeError(slot_name, Len(slot_ids))>>
    ELSE <<>>

\* if len(slot_ids) != 8: errors.append(...)
slot_size_check(slot_name, slot_ids) ==
    IF Len(slot_ids) # ExpectedRooms
    THEN <<SlotSizeError(slot_name, Len(slot_ids))>>
    ELSE <<>>

\* slip: compared with the first speaker of the slot only
speaker_seen_first(speaker, speakers_in_slot) ==
    speakers_in_slot # <<>> /\ speakers_in_slot[1] = speaker

\* slip: compared with the preceding speaker only
speaker_seen_last(speaker, speakers_in_slot) ==
    speakers_in_slot # <<>> /\ speakers_in_slot[Len(speakers_in_slot)] = speaker

\* slip: a speaker is flagged on the second occurrence only
speaker_seen_once(speaker, speakers_in_slot) ==
    Cardinality({i \in DOMAIN speakers_in_slot : speakers_in_slot[i] = speaker}) = 1

\* speaker in speakers_in_slot
speaker_seen(speaker, speakers_in_slot) ==
    \E i \in DOMAIN speakers_in_slot : speakers_in_slot[i] = speaker

\* for sid in slot_ids: ...   (positions i..len, speakers_in_slot so far)
RECURSIVE walk_slot(_, _, _, _, _)
walk_slot(slot_name, slot_ids, i, speakers_in_slot, smap) ==
    IF i > Len(slot_ids) THEN <<>>
    ELSE LET sid == slot_ids[i] IN
         IF sid \in DOMAIN smap
         THEN LET speaker == smap[sid].speakers IN
              (IF speaker_seen(speaker, speakers_in_slot)
               THEN <<SpeakerError(slot_name, speaker)>> ELSE <<>>)
              \o walk_slot(slot_name, slot_ids, i + 1,
                           Append(speakers_in_slot, speaker), smap)
         ELSE <<UnknownIdError(slot_name, sid)>>
              \o walk_slot(slot_name, slot_ids, i + 1, speakers_in_slot, smap)

\* body of "for slot_name in sorted(schedule.keys())" for the keys i..len
RECURSIVE slot_loop(_, _, _, _)
slot_loop(sched, keys, i, smap) ==
    IF i > Len(keys) THEN <<>>
    ELSE LET slot_name == keys[i]
             slot_ids == str_ids(sched[slot_name])
         IN slot_size_check(slot_name, slot_ids)
            \o walk_slot(slot_name, slot_ids, 1, <<>>, smap)
            \o slot_loop(sched, keys, i + 1, smap)

\* assigned_ids.extend(slot_ids) over the sorted slots
RECURSIVE assigned_from(_, _, _)
assigned_from(sched, keys, i) ==
    IF i > Len(keys) THEN <<>>
    ELSE str_ids(sched[keys[i]]) \o assigned_from(sched, keys, i + 1)

assigned_ids(sched) == assigned_from(sched, sorted_keys(sched), 1)

\* missing = all_ids - assigned_set
missing_ids(smap, assigned) == all_ids(smap) \ Range(assigned)

\* slip: the difference taken the wrong way round
extra_ids_swapped(smap, assigned) == all_ids(smap) \ Range(assigned)

\* extra = assigned_set - all_ids
extra_ids(smap, assigned) == Range(assigned) \ all_ids(smap)

\* slip: every occurrence listed (iterating assigned_ids, not the Counter)
dupe_ids_all(assigned) ==
    SelectSeq(assigned, LAMBDA sid : Cardinality({j \in DOMAIN assigned : assigned[j] = sid}) > 1)

\* dupes = [sid for sid, c in Counter(assigned_ids).items() if c > 1]
\* (Counter keeps first-occurrence order)
dupe_ids(assigned) ==
    LET isFirst(i) == \A j \in 1..(i - 1) : assigned[j] # assigned[i]
        isDupe(i) == \E j \in (i + 1)..Len(assigned) : assigned[j] = assigned[i]
        idx == SelectSeq([i \in 1..Len(assigned) |-> i],
                         LAMBDA i : isFirst(i) /\ isDupe(i))
    IN [n \in 1..Len(idx) |-> assigned[idx[n]]]

\* the three aggregate checks after the slot loop
global_checks(smap, assigned) ==
    LET missing == missing_ids(smap, assigned)
        extra == extra_ids(smap, assigned)
        dupes == dupe_ids(assigned)
    IN (IF missing # {} THEN <<MissingError(missing)>> ELSE <<>>)
       \o (IF extra # {} THEN <<ExtraError(extra)>> ELSE <<>>)
       \o (IF dupes # <<>> THEN <<DuplicateError(dupes)>> ELSE <<>>)

\* slip: a wrong number of slots ends the validation
collect_errors_short(sched, sess) ==
    LET smap == session_map(sess)
    IN IF slot_count_check(sched) # <<>> THEN slot_count_check(sched)
       ELSE slot_loop(sched, sorted_keys(sched), 1, smap)
            \o global_checks(smap, assigned_ids(sched))

collect_errors(sched, sess) ==
    LET smap == session_map(sess)
    IN slot_count_check(sched)
       \o slot_loop(sched, sorted_keys(sched), 1, smap)
       \o global_checks(smap, assigned_ids(sched))

\* slip: a single error tolerated
result_ok_lenient(errs) == Len(errs) <= 1

\* return len(errors) == 0, errors
result_ok(errs) == Len(errs) = 0

validate_schedule(sched, sess) ==
    LET errs == collect_errors(sched, sess)
    IN [ok |-> result_ok(errs), errors |-> errs]

(***************************************************************************)
(* compute_track_stats                                                     *)
(***************************************************************************)
\* Counter(seq): the elements that occur, each with its number of occurrences
Counter(seq) == [x \in Range(seq) |-> Cardinality({i \in DOMAIN seq : seq[i] = x})]

\* [session_map[str(sid)]["track"] for sid in schedule[slot_name]
\*                                  if str(sid) in session_map]
slot_tracks(slot_ids, smap) ==
    LET known == SelectSeq(slot_ids, LAMBDA sid : sid \in DOMAIN smap)
    IN [i \in 1..Len(known) |-> smap[known[i]].track]

\* slip: total_doublings += c
RECURSIVE slot_doublings_full(_, _)
slot_doublings_full(counts, tracks) ==
    IF tracks = {} THEN 0
    ELSE LET t == CHOOSE x \in tracks : TRUE
         IN (IF counts[t] > 1 THEN counts[t] ELSE 0)
            + slot_doublings_full(counts, tracks \ {t})

\* for c in counts.values(): if c > 1: total_doublings += c - 1
RECURSIVE slot_doublings(_, _)
slot_doublings(counts, tracks) ==
    IF tracks = {} THEN 0
    ELSE LET t == CHOOSE x \in tracks : TRUE
         IN (IF counts[t] > 1 THEN counts[t] - 1 ELSE 0)
            + slot_doublings(counts, tracks \ {t})

\* total_doublings accumulated over the slots keys[i..]
RECURSIVE doublings_from(_, _, _)
doublings_from(slot_stats, keys, i) ==
    IF i > Len(keys) THEN 0
    ELSE slot_doublings(slot_stats[keys[i]], DOMAIN slot_stats[keys[i]])
         + doublings_from(slot_stats, keys, i + 1)

compute_track_stats(sched, sess) ==
    LET smap == session_map(sess)
        slot_stats == [k \in DOMAIN sched |-> Counter(slot_tracks(str_ids(sched[k]), smap))]
    IN [stats |-> slot_stats,
        total_doublings |-> doublings_from(slot_stats, sorted_keys(sched), 1)]

(***************************************************************************)
(* Schedules                                                               *)
(***************************************************************************)
\* row-major grid with ids 2 and 9 exchanged: "1" in slot_1, "2" in slot_2
BaseCell(s, p) ==
    LET n == (s - 1) * ExpectedRooms + p
    IN IF n = 2 THEN 9 ELSE IF n = 9 THEN 2 ELSE n

\* the proposal as the producer wrote it: ids as JSON strings or numbers
BaseSchedule(form) ==
    [k \in Range(SlotNames) |->
        LET s == CHOOSE i \in DOMAIN SlotNames : SlotNames[i] = k
        IN [p \in 1..ExpectedRooms |->
               IF form = "int" THEN JInt(BaseCell(s, p))
               ELSE JStr(ToString(BaseCell(s, p)))]]

UnknownId == JStr(ToString(NumSessions + 1))

\* first proposals: the grid, and the grid with an id that is in no catalog
\* at the last position of slot_7
FirstProposals ==
    {BaseSchedule("str"), BaseSchedule("int"),
     [BaseSchedule("str") EXCEPT ![SlotNames[ExpectedSlots]][ExpectedRooms] = UnknownId]}

\* what the latest proposal changed, and the verdict on its predecessor
Op(op, slot, pos, sid) ==
    [op |-> op, slot |-> slot, pos |-> pos, sid |-> sid, wasOk |-> ok]

NoOp == [op |-> "load", slot |-> "", pos |-> 0, sid |-> "", wasOk |-> FALSE]

\* a sequence without its p-th element
RemoveAt(seq, p) == [i \in 1..(Len(seq) - 1) |-> IF i < p THEN seq[i] ELSE seq[i + 1]]

\* schedules that use the key "to" in place of the key "from"
RenameKey(sched, from, to) ==
    [k \in (DOMAIN sched \ {from}) \cup {to} |-> IF k = to THEN sched[from] ELSE sched[k]]

(***************************************************************************)
(* The version store (output/versions.json)                                *)
(***************************************************************************)
\* number of save_version calls explored
MaxSaves == 3
\* seconds the clock may advance
MaxClock == 1

\* datetime.now(timezone.utc).strftime("%Y-%m-%dT%H:%M:%SZ"), epoch seconds t
timestamp(t) == "T+" \o ToString(t) \o "Z"

\* max((v["version"] for v in versions), default=0)
RECURSIVE max_version(_, _)
max_version(versions, i) ==
    IF i > Len(versions) THEN 0
    ELSE LET rest == max_version(versions, i + 1)
         IN IF versions[i].version > rest THEN versions[i].version ELSE rest

\* slip: the file is not read
load_versions_missing(st) == <<>>

\* load_versions: the parsed file if it exists, else []
load_versions(st) == IF st.exists THEN st.versions ELSE <<>>

\* slip: numbered by the count of stored versions, without the + 1
next_version_len(versions) == Len(versions)

\* next_ver = max(..., default=0) + 1
next_version(versions) == max_version(versions, 1) + 1

\* the record save_version appends
new_version(next_ver, sched, label, description, now) ==
    [version |-> next_ver,
     label |-> IF label # "" THEN label ELSE "Version " \o ToString(next_ver),
     description |-> description,
     created |-> timestamp(now),
     schedule |-> sched]

\* slip: the new record is written in front of the loaded ones
save_version_result_front(st, sched, label, description, now) ==
    LET versions == load_versions(st)
        next_ver == next_version(versions)
    IN [store |-> [exists |-> TRUE,
                   versions |-> <<new_version(next_ver, sched, label, description, now)>>
                                \o versions],
        ret |-> next_ver]

\* save_version: load, number, append, rewrite the file; returns next_ver
save_version_result(st, sched, label, description, now) ==
    LET versions == load_versions(st)
        next_ver == next_version(versions)
    IN [store |-> [exists |-> TRUE,
                   versions |-> Append(versions,
                                       new_version(next_ver, sched, label, description, now))],
        ret |-> next_ver]

\* schedules handed to save_version: a valid one, and one with ids "1" and
\* "2" together in slot_1
SampleSchedules ==
    LET base == normalize_ids(BaseSchedule("str"))
    IN {base,
        [base EXCEPT !["slot_1"][2] = base["slot_2"][1], !["slot_2"][1] = base["slot_1"][2]]}

\* (label, description) arguments of save_version; "" is the default
SampleArgs == {<<"", "">>, <<"final", "swap">>}

(***************************************************************************)
(* process_swap.py: a schedule proposed in the body of an issue            *)
(***************************************************************************)
\* The issue body, by what the script looks for in it: whether it is the
\* empty string, whether it holds the marker, where its ```json fence
\* stands ("heading": right under "### Proposed Schedule", "plain":
\* elsewhere, "none": there is no fence), and the text in the fence.
Body(empty, marker, fence, json) ==
    [empty |-> empty, marker |-> marker, fence |-> fence, json |-> json]

\* Text of a fence: a JSON object of lists ("object"), a JSON object whose
\* values are numbers ("numbers"), text in braces that is not JSON
\* ("malformed"), text that is not in braces ("unbraced"); slot_1 says
\* whether the text holds "slot_1" in quotes.
JsonText(kind, value, slot_1) == [kind |-> kind, value |-> value, slot_1 |-> slot_1]

ObjectText(sched) == JsonText("object", sched, "slot_1" \in DOMAIN sched)

NoText == JsonText("unbraced", <<>>, FALSE)

\* schedules proposed in issues: the grid with ids as strings and as
\* numbers, with an id outside the catalog, with ids "1" and "2" in slot_1,
\* and with the key slot_8 in place of slot_1
SwapSchedules ==
    FirstProposals \cup SampleSchedules
        \cup {RenameKey(normalize_ids(BaseSchedule("str")), "slot_1", "slot_8")}

SwapTexts ==
    {ObjectText(sched) : sched \in SwapSchedules}
        \cup {JsonText("numbers", <<>>, TRUE),
              JsonText("malformed", <<>>, TRUE),
              JsonText("malformed", <<>>, FALSE),
              NoText}

Bodies ==
    {Body(TRUE, FALSE, "none", NoText)}
        \cup {Body(FALSE, marker, "none", NoText) : marker \in BOOLEAN}
        \cup {Body(FALSE, marker, fence, json) :
                 marker \in BOOLEAN, fence \in {"heading", "plain"}, json \in SwapTexts}

\* sys.exit(1), or an exception nobody catches
Exit(code) == [exit |-> code]

\* re.search(r"### Proposed Schedule\s*```json\s*(\{.*?\})\s*```", ...)
heading_match(body) == body.fence = "heading" /\ body.json.kind # "unbraced"

\* re.search(r'```json\s*(\{[^`]*"slot_1"[^`]*\})\s*```', ...)
fallback_match(body) ==
    body.fence \in {"heading", "plain"} /\ body.json.kind # "unbraced" /\ body.json.slot_1

\* json.loads(match.group(1))
json_loads(json) ==
    IF json.kind = "malformed" THEN Exit(1) ELSE [loaded |-> json]

\* extract_schedule(body): the parsed JSON, or the exit
extract_schedule(body) ==
    IF ~body.marker THEN Exit(1)
    ELSE IF ~(heading_match(body) \/ fallback_match(body)) THEN Exit(1)
    ELSE json_loads(body.json)

\* slip: the verdict of the validation is not looked at
swap_rejected_never(verdict) == FALSE

\* if not ok: ... sys.exit(1)
swap_rejected(verdict) == ~verdict.ok

\* main of process_swap.py on a body, with the catalog load_sessions()
\* returns: the exit status and, if the file is written, what is written
process_swap_main(body, sess) ==
    IF body.empty THEN [status |-> 1, write |-> FALSE, schedule |-> <<>>]
    ELSE LET extracted == extract_schedule(body)
         IN IF "exit" \in DOMAIN extracted
            THEN [status |-> extracted.exit, write |-> FALSE, schedule |-> <<>>]
            ELSE IF extracted.loaded.kind = "numbers"
            \* [str(sid) for sid in v] on a number: TypeError
            THEN [status |-> 1, write |-> FALSE, schedule |-> <<>>]
            ELSE LET normalized == normalize_ids(extracted.loaded.value)
                 IN IF swap_rejected(validate_schedule(normalized, sess))
                    THEN [status |-> 1, write |-> FALSE, schedule |-> <<>>]
                    ELSE [status |-> 0, write |-> TRUE, schedule |-> normalized]

\* no run of process_swap.py yet
NoSwap == [done |-> FALSE, status |-> 0, body |-> Body(TRUE, FALSE, "none", NoText),
           before |-> [exists |-> FALSE, schedule |-> <<>>]]

\* the processes that may call save_version
Writers == {"w1", "w2"}

\* no save_version call in progress
NoCall == [before |-> <<>>, versions |-> <<>>, next_ver |-> 0, schedule |-> <<>>]

(***************************************************************************)
(* Init: main has loaded the catalog, read a proposal, normalised its ids  *)
(* and validated it; the version store does not exist yet.                 *)
(***************************************************************************)
Init ==
    /\ \E kind \in CatalogKinds : sessions = Catalog(kind)
    /\ multi_speakers = find_multi_session_speakers(sessions)
    /\ \E first \in FirstProposals : schedule = normalize_ids(first)
    /\ \E r \in {validate_schedule(schedule, sessions)} :
           /\ ok = r.ok
           /\ errors = r.errors
    /\ stats = compute_track_stats(schedule, sessions)
    /\ schedule_json = [exists |-> TRUE, schedule |-> schedule]
    /\ swap = NoSwap
    /\ lastOp = NoOp
    /\ edits = 0
    /\ store = [exists |-> FALSE, versions |-> <<>>]
    /\ torn = FALSE
    /\ returned = <<>>
    /\ loaded = [done |-> FALSE, saves |-> 0, versions |-> <<>>]
    /\ clock = 0
    /\ pc = [w \in Writers |-> "idle"]
    /\ mem = [w \in Writers |-> NoCall]
    /\ stale = FALSE
    /\ page = <<>>
    /\ curIdx = 0
    /\ showDiff = FALSE
    /\ diffs = {}

\* a further proposal is read, normalised and validated (main)
Propose(new, op) ==
    /\ edits < MaxEdits
    /\ edits' = edits + 1
    /\ schedule' = normalize_ids(new)
    /\ \E r \in {validate_schedule(schedule', sessions)} :
           /\ ok' = r.ok
           /\ errors' = r.errors
    /\ stats' = compute_track_stats(schedule', sessions)
    /\ schedule_json' = [exists |-> TRUE, schedule |-> schedule']
    /\ lastOp' = op
    /\ UNCHANGED <<sessions, multi_speakers, swap, storeVars, procVars, viewVars>>

Cells ==
    {c \in {Cell(n) : n \in 1..EditCells} :
        c[1] \in DOMAIN schedule /\ c[2] <= Len(schedule[c[1]])}

\* the proposal exchanges the ids of two cells
SwapSessions ==
    \E c1 \in Cells, c2 \in Cells :
        /\ c1 # c2
        /\ LET a == schedule[c1[1]][c1[2]]
               b == schedule[c2[1]][c2[2]]
               s1 == [schedule EXCEPT ![c1[1]][c1[2]] = b]
               s2 == [s1 EXCEPT ![c2[1]][c2[2]] = a]
           IN Propose(s2, Op(IF c1[1] = c2[1] THEN "swap_within" ELSE "swap_across",
                             c1[1], c1[2], str(b)))

\* the proposal exchanges the id lists of two slot names
SwapSlots ==
    \E a \in EditKeys, b \in EditKeys :
        /\ a # b
        /\ a \in DOMAIN schedule /\ b \in DOMAIN schedule
        /\ Propose([schedule EXCEPT ![a] = schedule[b], ![b] = schedule[a]],
                   Op("swap_slots", a, 0, ""))

\* the proposal drops one entry of a slot
RemoveSession ==
    \E c \in Cells :
        Propose([schedule EXCEPT ![c[1]] = RemoveAt(schedule[c[1]], c[2])],
                Op("remove", c[1], c[2], str(schedule[c[1]][c[2]])))

\* the proposal puts another id (one used nearby, or one outside the catalog)
\* at one position
OverwriteSession ==
    \E c \in Cells, d \in Cells \cup {<<"", 0>>} :
        LET sid == IF d = <<"", 0>> THEN UnknownId ELSE schedule[d[1]][d[2]]
        IN /\ sid # schedule[c[1]][c[2]]
           /\ Propose([schedule EXCEPT ![c[1]][c[2]] = sid],
                      Op("overwrite", c[1], c[2], str(sid)))

\* the proposal names a slot differently
RenameSlot ==
    \E a \in EditKeys, k \in ForeignKeys :
        /\ a \in DOMAIN schedule /\ k \notin DOMAIN schedule
        /\ Propose(RenameKey(schedule, a, k), Op("rename", k, 0, ""))

\* the proposal has one more slot key (with no sessions)
AddSlot ==
    \E k \in ForeignKeys :
        /\ k \notin DOMAIN schedule
        /\ Propose([x \in DOMAIN schedule \cup {k} |-> IF x = k THEN <<>> ELSE schedule[x]],
                   Op("add_slot", k, 0, ""))

\* the proposal lacks a slot key
RemoveSlot ==
    \E a \in EditKeys :
        /\ a \in DOMAIN schedule
        /\ Propose([x \in DOMAIN schedule \ {a} |-> schedule[x]], Op("remove_slot", a, 0, ""))

Next ==
    \/ SwapSessions
    \/ SwapSlots
    \/ RemoveSession
    \/ OverwriteSession
    \/ RenameSlot
    \/ AddSlot
    \/ RemoveSlot

Spec == Init /\ [][Next]_vars

(***************************************************************************)
(* The version store under a single writer                                 *)
(***************************************************************************)
\* one call of save_version(schedule, label, description)
SaveVersion ==
    \E sched \in SampleSchedules, args \in SampleArgs :
        /\ Len(returned) < MaxSaves
        /\ LET r == save_version_result(store, sched, args[1], args[2], clock)
           IN /\ store' = r.store
              /\ returned' = Append(returned, [version |-> r.ret, schedule |-> sched])
        /\ UNCHANGED <<valVars, torn, loaded, clock, procVars, viewVars>>

\* one call of load_versions()
LoadVersions ==
    /\ loaded' = [done |-> TRUE, saves |-> Len(returned), versions |-> load_versions(store)]
    /\ UNCHANGED <<valVars, store, torn, returned, clock, procVars, viewVars>>

\* time passes
Tick ==
    /\ clock < MaxClock
    /\ clock' = clock + 1
    /\ UNCHANGED <<valVars, store, torn, returned, loaded, procVars, viewVars>>

StoreNext ==
    \/ SaveVersion
    \/ LoadVersions
    \/ Tick

StoreSpec == Init /\ [][StoreNext]_vars

(***************************************************************************)
(* The version store when records are taken out of the file between calls  *)
(***************************************************************************)
\* somebody deletes one record from output/versions.json; the next
\* load_versions() returns what is left
RemoveVersion ==
    /\ store.exists
    /\ \E i \in DOMAIN store.versions :
           store' = [store EXCEPT !.versions = RemoveAt(@, i)]
    /\ UNCHANGED <<valVars, torn, returned, loaded, clock, procVars, viewVars>>

RemovalNext ==
    \/ SaveVersion
    \/ RemoveVersion

RemovalSpec == Init /\ [][RemovalNext]_vars

(***************************************************************************)
(* save_version statement by statement, and a process that stops part way  *)
(***************************************************************************)
\* versions = load_versions(); next_ver = ...; versions.append({...})
SaveLoad(w) ==
    \E sched \in SampleSchedules, args \in SampleArgs :
        /\ pc[w] = "idle"
        /\ ~torn
        /\ Len(returned) + Cardinality({v \in Writers : pc[v] # "idle"}) < MaxSaves
        /\ LET versions == load_versions(store)
               next_ver == next_version(versions)
           IN mem' = [mem EXCEPT ![w] =
                        [before |-> versions,
                         versions |-> Append(versions,
                                             new_version(next_ver, sched, args[1], args[2], clock)),
                         next_ver |-> next_ver,
                         schedule |-> sched]]
        /\ pc' = [pc EXCEPT ![w] = "loaded"]
        /\ stale' = (stale \/ \E v \in Writers \ {w} : pc[v] = "loaded")
        /\ UNCHANGED <<valVars, storeVars, viewVars>>

\* with open(VERSIONS_PATH, "w") as f: the file is created or cut to length 0
SaveOpen(w) ==
    /\ pc[w] = "loaded"
    /\ store' = [exists |-> TRUE, versions |-> <<>>]
    /\ torn' = TRUE
    /\ pc' = [pc EXCEPT ![w] = "open"]
    /\ UNCHANGED <<valVars, returned, loaded, clock, mem, stale, viewVars>>

\* json.dump(versions, f, indent=2), the file closed on leaving the with
\* block, and return next_ver.  While another process has the file open for
\* writing too, the bytes of the two land in one file, each at its own
\* offset: the file holds this call's document or a mixture of the two.
SaveWrite(w) ==
    /\ pc[w] = "open"
    /\ store' = [exists |-> TRUE, versions |-> mem[w].versions]
    /\ torn' \in {FALSE} \cup {x \in {TRUE} : \E v \in Writers \ {w} : pc[v] = "open"}
    /\ returned' = Append(returned, [version |-> mem[w].next_ver, schedule |-> mem[w].schedule])
    /\ pc' = [pc EXCEPT ![w] = "idle"]
    /\ UNCHANGED <<valVars, loaded, clock, mem, stale, viewVars>>

\* the process stops (killed, power loss, an exception in json.dump) before
\* save_version has returned
Crash(w) ==
    /\ pc[w] \in {"loaded", "open"}
    /\ pc' = [pc EXCEPT ![w] = "stopped"]
    /\ UNCHANGED <<valVars, storeVars, mem, stale, viewVars>>

\* load_versions() in save_version while the file is not a whole JSON
\* document: json.load raises and the call ends without a result
SaveLoadFails(w) ==
    /\ pc[w] = "idle"
    /\ torn
    /\ pc' = [pc EXCEPT ![w] = "failed"]
    /\ UNCHANGED <<valVars, storeVars, mem, stale, viewVars>>

\* the single writer
Writer == "w1"

CrashNext ==
    \/ SaveLoad(Writer)
    \/ SaveOpen(Writer)
    \/ SaveWrite(Writer)
    \/ Crash(Writer)

CrashSpec == Init /\ [][CrashNext]_vars

(***************************************************************************)
(* Two processes calling save_version on the same file, with no lock       *)
(***************************************************************************)
ConcurrentNext ==
    \E w \in Writers :
        \/ SaveLoad(w)
        \/ SaveLoadFails(w)
        \/ SaveOpen(w)
        \/ SaveWrite(w)

ConcurrentSpec == Init /\ [][ConcurrentNext]_vars

(***************************************************************************)
(* Runs of process_swap.py, one per issue                                  *)
(***************************************************************************)
ProcessSwap ==
    \E body \in Bodies :
        \E r \in {process_swap_main(body, sessions)} :
            /\ schedule_json' = IF r.write THEN [exists |-> TRUE, schedule |-> r.schedule]
                                ELSE schedule_json
            /\ swap' = [done |-> TRUE, status |-> r.status, body |-> body,
                        before |-> schedule_json]
            /\ UNCHANGED <<sessions, multi_speakers, schedule, ok, errors, stats, lastOp,
                           edits, storeVars, procVars, viewVars>>

SwapNext == ProcessSwap

SwapSpec == Init /\ [][SwapNext]_vars

(***************************************************************************)
(* Runs of main, one after another, on the same catalog                    *)
(***************************************************************************)
\* one run of main --from-json: read the schedule, normalise its ids,
\* validate, compute the track statistics, save_version, write the page
RunMain ==
    \E first \in FirstProposals \cup SampleSchedules, args \in SampleArgs :
        /\ Len(returned) < MaxSaves
        /\ schedule' = normalize_ids(first)
        /\ schedule_json' = [exists |-> TRUE, schedule |-> schedule']
        /\ \E r \in {validate_schedule(schedule', sessions)} :
               /\ ok' = r.ok
               /\ errors' = r.errors
        /\ stats' = compute_track_stats(schedule', sessions)
        /\ \E r \in {save_version_result(store, schedule', args[1], args[2], clock)} :
               /\ store' = r.store
               /\ returned' = Append(returned, [version |-> r.ret, schedule |-> schedule'])
        /\ page' = store'.versions
        /\ lastOp' = Op("main", "", 0, "")
        /\ edits' = 0
        /\ UNCHANGED <<sessions, multi_speakers, swap, torn, loaded, clock, procVars,
                       curIdx, showDiff, diffs>>

MainNext ==
    \/ RunMain
    \/ Tick

MainSpec == Init /\ [][MainNext]_vars

(***************************************************************************)
(* The generated page: version picker and diff toggle                      *)
(***************************************************************************)
\* for (let i = 0; i < 8; i++)
DiffPositions == 8

\* the JavaScript value undefined
Undefined == [undefined |-> TRUE]

\* ids[i] for a JavaScript array (first index 0)
js_index(ids, i) == IF i < Len(ids) THEN ids[i + 1] ELSE Undefined

\* obj[slot] || []
js_slot(sched, slot) == IF slot \in DOMAIN sched THEN sched[slot] ELSE <<>>

\* getDiffSet(): the "slot:position" keys that differ from the version before
\* the current one; cur_idx is versions.indexOf(currentVersion), so
\* versions[curIdx - 1] is the cur_idx-th element counting from 1
getDiffSet(versions, cur_idx, show_diff) ==
    IF cur_idx <= 0 \/ ~show_diff THEN {}
    ELSE LET prev == versions[cur_idx].schedule
             cur == versions[cur_idx + 1].schedule
         IN {c \in (DOMAIN cur) \X (0..(DiffPositions - 1)) :
                js_index(js_slot(cur, c[1]), c[2]) # js_index(js_slot(prev, c[1]), c[2])}

\* schedules that get stored one after another: the grid; the grid with one
\* id replaced; with a ninth id in slot_1; with another ninth id in slot_1;
\* with slot_1 one id short; without the key slot_7
DiffSchedules ==
    LET base == normalize_ids(BaseSchedule("str"))
        other == JStr(ToString(NumSessions + 2))
    IN {base,
        [base EXCEPT !["slot_2"][3] = UnknownId],
        [base EXCEPT !["slot_1"] = Append(@, UnknownId)],
        [base EXCEPT !["slot_1"] = Append(@, other)],
        [base EXCEPT !["slot_1"] = RemoveAt(@, ExpectedRooms)],
        [k \in DOMAIN base \ {SlotNames[ExpectedSlots]} |-> base[k]]}

\* main stores a schedule and writes the page; the page is opened: the
\* newest version is current, the toggle is off, render() runs
Publish ==
    \E sched \in DiffSchedules :
        /\ Len(returned) < MaxSaves
        /\ \E r \in {save_version_result(store, sched, "", "", clock)} :
               /\ store' = r.store
               /\ returned' = Append(returned, [version |-> r.ret, schedule |-> sched])
        /\ page' = load_versions(store')
        /\ curIdx' = Len(page') - 1
        /\ showDiff' = FALSE
        /\ diffs' = getDiffSet(page', curIdx', showDiff')
        /\ UNCHANGED <<valVars, torn, loaded, clock, procVars>>

\* the picker's change handler
SelectVersion ==
    \E i \in 0..(Len(page) - 1) :
        /\ i # curIdx
        /\ curIdx' = i
        /\ diffs' = getDiffSet(page, curIdx', showDiff)
        /\ UNCHANGED <<valVars, storeVars, procVars, page, showDiff>>

\* the diff toggle's change handler
ToggleDiff ==
    /\ page # <<>>
    /\ showDiff' = ~showDiff
    /\ diffs' = getDiffSet(page, curIdx, showDiff')
    /\ UNCHANGED <<valVars, storeVars, procVars, page, curIdx>>

ViewNext ==
    \/ Publish
    \/ SelectVersion
    \/ ToggleDiff

ViewSpec == Init /\ [][ViewNext]_vars

(***************************************************************************)
(* Properties of validate_schedule (checked under Spec)                    *)
(***************************************************************************)
CatalogIds == {sessions[i].id : i \in DOMAIN sessions}

\* the speaker the catalog gives for a catalog id
SpeakerOfId(sid) == sessions[CHOOSE i \in DOMAIN sessions : sessions[i].id = sid].speakers

\* the id (a Python str) at a position of a slot of the schedule just validated
IdAt(k, i) == str(schedule[k][i])

Positions == {c \in (DOMAIN schedule) \X (1..(ExpectedRooms + 1)) : c[2] <= Len(schedule[c[1]])}

\* number of reported errors satisfying P
CountErrors(errs, P(_)) == Cardinality({i \in DOMAIN errs : P(errs[i])})

ErrorsOfKind(errs, kind) == SelectSeq(errs, LAMBDA e : e.kind = kind)

\* a partition of the catalog into 7 slots of 8 without a speaker repeated
IsValidPartition ==
    /\ Cardinality(DOMAIN schedule) = ExpectedSlots
    /\ \A k \in DOMAIN schedule : Len(schedule[k]) = ExpectedRooms
    /\ \A c \in Positions : IdAt(c[1], c[2]) \in CatalogIds
    /\ \A sid \in CatalogIds :
           Cardinality({c \in Positions : IdAt(c[1], c[2]) = sid}) = 1
    /\ \A k \in DOMAIN schedule : \A i, j \in 1..Len(schedule[k]) :
           i < j => SpeakerOfId(IdAt(k, i)) # SpeakerOfId(IdAt(k, j))

\* C1: whenever validate_schedule returns ok = true the schedule has exactly 7
\* slot keys of exactly 8 ids each, every assigned id is a catalog id, every
\* catalog id is assigned exactly once, and no slot repeats a speaker.
C1_Soundness == ok => IsValidPartition

\* a proposal that moved a session to another slot was validated and passed
C1_Witness == ok /\ lastOp.op = "swap_across"

\* C2: every partition of the catalog into 7 slots of 8 with no speaker
\* repeated inside a slot validates with ok = true and no errors.
C2_Completeness == IsValidPartition => (ok /\ errors = <<>>)

\* a valid partition under other slot names was validated
C2_Witness == IsValidPartition /\ lastOp.op = "rename"

\* C3: ok is true exactly when the returned error list is empty.
C3_OkIffNoErrors == ok <=> (errors = <<>>)

\* a rejected proposal with exactly one error
C3_Witness == ~ok /\ Len(errors) = 1 /\ lastOp.op = "swap_across"

\* C4: reordering the entries inside one slot, or exchanging the id lists of
\* two slot names, leaves ok as it was for the schedule before.
C4_PermutationInvariant ==
    lastOp.op \in {"swap_within", "swap_slots"} => ok = lastOp.wasOk

\* a slot holding a speaker clash was reordered (and stays rejected)
C4_Witness ==
    /\ lastOp.op = "swap_within"
    /\ ~ok
    /\ CountErrors(errors, LAMBDA e : e.kind = "speaker_twice") > 0

\* C5: deleting one id from a passing schedule yields exactly one size error
\* ("expected 8 sessions, got 7") for that slot and exactly one "Missing
\* sessions" error naming exactly that id.
C5_RemoveOne ==
    (lastOp.op = "remove" /\ lastOp.wasOk) =>
        /\ ErrorsOfKind(errors, "slot_size") =
               <<SlotSizeError(lastOp.slot, ExpectedRooms - 1)>>
        /\ ErrorsOfKind(errors, "missing") = <<MissingError({lastOp.sid})>>

\* an entry was deleted from a schedule that had passed
C5_Witness == lastOp.op = "remove" /\ lastOp.wasOk /\ ~ok

\* the id written by the latest overwrite also sits in another slot
OverwroteWithIdOfOtherSlot ==
    /\ lastOp.op = "overwrite"
    /\ lastOp.wasOk
    /\ \E c \in Positions : c[1] # lastOp.slot /\ IdAt(c[1], c[2]) = lastOp.sid

\* C6: overwriting one position of a passing schedule with an id assigned in a
\* different slot yields exactly one "Duplicate session IDs" error, listing the
\* duplicated id exactly once, and exactly one "Missing sessions" error.
C6_DuplicateAcrossSlots ==
    OverwroteWithIdOfOtherSlot =>
        /\ Len(ErrorsOfKind(errors, "duplicate")) = 1
        /\ LET ids == ErrorsOfKind(errors, "duplicate")[1].ids
           IN Cardinality({n \in DOMAIN ids : ids[n] = lastOp.sid}) = 1
        /\ Len(ErrorsOfKind(errors, "missing")) = 1

\* a passing schedule had an entry overwritten with an id of another slot
C6_Witness == OverwroteWithIdOfOtherSlot /\ ~ok

\* number of catalog sessions of one speaker in one slot
SpeakerCount(k, speaker) ==
    Cardinality({i \in 1..Len(schedule[k]) :
                    IdAt(k, i) \in CatalogIds /\ SpeakerOfId(IdAt(k, i)) = speaker})

\* the speakers of the catalog sessions of a slot, and those its errors name
SpeakersIn(k) ==
    {SpeakerOfId(IdAt(k, i)) : i \in {j \in 1..Len(schedule[k]) : IdAt(k, j) \in CatalogIds}}

SpeakersBlamed(k) ==
    {errors[i].speaker :
        i \in {j \in DOMAIN errors : errors[j].kind = "speaker_twice" /\ errors[j].slot = k}}

\* C7: a speaker occurring k >= 2 times among the known sessions of one slot
\* yields exactly k-1 conflict errors naming that speaker and slot, and ok is
\* false; a speaker occurring at most once in a slot yields none there (so
\* sessions of one speaker in different slots raise no conflict).
C7_SpeakerConflicts ==
    /\ \A i \in DOMAIN errors :
           errors[i].kind = "speaker_twice" => errors[i].slot \in DOMAIN schedule
    /\ \A k \in DOMAIN schedule : \A speaker \in SpeakersIn(k) \cup SpeakersBlamed(k) :
           LET n == SpeakerCount(k, speaker)
           IN /\ CountErrors(errors, LAMBDA e : e = SpeakerError(k, speaker))
                     = (IF n >= 2 THEN n - 1 ELSE 0)
              /\ n >= 2 => ~ok

\* one slot holds three sessions of one speaker
C7_Witness ==
    \E k \in DOMAIN schedule : \E speaker \in SpeakersIn(k) : SpeakerCount(k, speaker) = 3

\* the schedule with every id that is not in the catalog taken out
RECURSIVE KnownOnly(_)
KnownOnly(ids) ==
    IF ids = <<>> THEN <<>>
    ELSE (IF str(Head(ids)) \in CatalogIds THEN <<Head(ids)>> ELSE <<>>)
         \o KnownOnly(Tail(ids))

WithoutUnknown == [k \in DOMAIN schedule |-> KnownOnly(schedule[k])]

UnknownAssigned == {IdAt(c[1], c[2]) : c \in Positions} \ CatalogIds

GlobalErrors(errs) == SelectSeq(errs, LAMBDA e : e.kind \in {"missing", "extra", "duplicate"})

\* C8 (as stated): an id outside the catalog is reported per slot and changes
\* nothing else; in particular the errors of the global step are those of the
\* same schedule without the unknown ids.
C8_UnknownNoFurtherError ==
    GlobalErrors(errors) = GlobalErrors(validate_schedule(WithoutUnknown, sessions).errors)

\* C8 (amended): each occurrence of an unknown id is reported by one per-slot
\* "unknown session ID" error naming the id and the slot; unknown ids change
\* neither the speaker-conflict errors nor the "Missing sessions" error; the
\* global step reports them once more, in one "Unknown session IDs" error
\* holding exactly the assigned ids outside the catalog, and lists an unknown
\* id assigned more than once in "Duplicate session IDs".
C8_UnknownIds ==
    LET clean == validate_schedule(WithoutUnknown, sessions).errors
    IN /\ \A k \in DOMAIN schedule : \A sid \in UnknownAssigned :
              CountErrors(errors, LAMBDA e : e = UnknownIdError(k, sid))
                  = Cardinality({i \in 1..Len(schedule[k]) : IdAt(k, i) = sid})
       /\ ErrorsOfKind(errors, "speaker_twice") = ErrorsOfKind(clean, "speaker_twice")
       /\ ErrorsOfKind(errors, "missing") = ErrorsOfKind(clean, "missing")
       /\ ErrorsOfKind(errors, "extra") =
              (IF UnknownAssigned = {} THEN <<>> ELSE <<ExtraError(UnknownAssigned)>>)
       /\ \A sid \in UnknownAssigned :
              Cardinality({c \in Positions : IdAt(c[1], c[2]) = sid}) > 1 =>
                  /\ Len(ErrorsOfKind(errors, "duplicate")) = 1
                  /\ sid \in Range(ErrorsOfKind(errors, "duplicate")[1].ids)

\* an unknown id was validated twice over, once inside a slot with a clash
C8_Witness ==
    /\ \E sid \in UnknownAssigned : Cardinality({c \in Positions : IdAt(c[1], c[2]) = sid}) = 2
    /\ lastOp.op = "overwrite"

\* C9: ok = true only when the key set is exactly {slot_1, ..., slot_7}.
C9_ExactSlotNames == ok => DOMAIN schedule = Range(SlotNames)

(***************************************************************************)
(* Properties of the version store (checked under StoreSpec)               *)
(***************************************************************************)
\* C10: from an empty store and with a single writer, load_versions on the
\* missing store returns the empty sequence, the k-th save_version returns k,
\* and after n appends load_versions returns n records in insertion order,
\* numbered 1..n, each holding the schedule given to the matching append.
C10_VersionNumbering ==
    /\ \A k \in DOMAIN returned : returned[k].version = k
    /\ loaded.done =>
           /\ Len(loaded.versions) = loaded.saves
           /\ \A k \in DOMAIN loaded.versions :
                  /\ loaded.versions[k].version = k
                  /\ loaded.versions[k].schedule = returned[k].schedule

\* two different schedules were appended and then loaded back
C10_Witness ==
    /\ loaded.done
    /\ loaded.saves = 2
    /\ Len(loaded.versions) = 2
    /\ loaded.versions[1].schedule # loaded.versions[2].schedule

\* C11: no version number returned by an earlier save_version is returned
\* by a later one, whatever records were removed from the file in between.
C11_NeverReused ==
    \A i, j \in DOMAIN returned : i < j => returned[i].version # returned[j].version

(***************************************************************************)
(* Properties of the file rewrite (checked under CrashSpec)                *)
(***************************************************************************)
\* C12: when the process has stopped during save_version, the file is a
\* whole document holding either the sequence that was there before the call
\* or that sequence with the new record.
C12_AtomicRewrite ==
    \A w \in Writers :
        pc[w] = "stopped" =>
            /\ ~torn
            /\ load_versions(store) \in {mem[w].before, mem[w].versions}

(***************************************************************************)
(* Properties of main (checked under MainSpec)                             *)
(***************************************************************************)
\* C13: every schedule main has put into the version store passed
\* validate_schedule with ok = true.
C13_OnlyValidStored ==
    \A i \in DOMAIN store.versions :
        validate_schedule(store.versions[i].schedule, sessions).ok

(***************************************************************************)
(* Frame of save_version (checked under StoreSpec)                         *)
(***************************************************************************)
\* C14: a save_version call leaves every record that was in the file where
\* it was and as it was, and adds exactly one record after them.
C14_AppendOnly ==
    [][returned' # returned =>
          /\ Len(load_versions(store')) = Len(load_versions(store)) + 1
          /\ \A i \in DOMAIN load_versions(store) :
                 load_versions(store')[i] = load_versions(store)[i]
          /\ load_versions(store')[Len(load_versions(store'))].version
                 = returned'[Len(returned')].version]_vars

\* a save_version call has added a third record behind two that differ in
\* every field
C14_Witness ==
    /\ Len(returned) = 3
    /\ Len(store.versions) = 3
    /\ store.versions[1].label # store.versions[2].label
    /\ store.versions[1].description # store.versions[2].description
    /\ store.versions[1].created # store.versions[2].created
    /\ store.versions[1].schedule # store.versions[2].schedule

(***************************************************************************)
(* Properties of the diff shown by the page (checked under ViewSpec)       *)
(***************************************************************************)
\* the schedules of the version shown and of the one stored before it
CurSchedule == page[curIdx + 1].schedule
PrevSchedule == page[curIdx].schedule

\* no id at the coordinate
Absent == [absent |-> TRUE]

\* the id a schedule has at a coordinate (positions counted from 0)
EntryAt(sched, c) ==
    IF c[1] \in DOMAIN sched /\ c[2] < Len(sched[c[1]]) THEN sched[c[1]][c[2] + 1] ELSE Absent

Coordinates(sched) ==
    UNION {{<<k, i>> : i \in 0..(Len(sched[k]) - 1)} : k \in DOMAIN sched}

\* the coordinates at which two schedules differ
Differing(a, b) ==
    {c \in Coordinates(a) \cup Coordinates(b) : EntryAt(a, c) # EntryAt(b, c)}

\* C15: with the diff switched on, the first stored version has an empty
\* diff; a version whose schedule equals that of the version before it has an
\* empty diff; and when the two schedules differ at exactly one (slot,
\* position) the diff is exactly that coordinate.
C15_DiffBasics ==
    (page # <<>> /\ showDiff) =>
        /\ curIdx = 0 => diffs = {}
        /\ (curIdx > 0 /\ CurSchedule = PrevSchedule) => diffs = {}
        /\ (curIdx > 0 /\ Cardinality(Differing(CurSchedule, PrevSchedule)) = 1) =>
               diffs = Differing(CurSchedule, PrevSchedule)

(***************************************************************************)
(* Properties of compute_track_stats and find_multi_session_speakers       *)
(* (checked under Spec)                                                    *)
(***************************************************************************)
TrackOfId(sid) == sessions[CHOOSE i \in DOMAIN sessions : sessions[i].id = sid].track

AllTracks == {sessions[i].track : i \in DOMAIN sessions}

\* the tracks of the catalog sessions assigned to slot k, one per session
TracksIn(k) ==
    LET known == KnownOnly(schedule[k])
    IN <<>> \o [i \in 1..Len(known) |-> TrackOfId(str(known[i]))]

\* number of entries of a sequence of tracks that are the track t
TrackCount(tracks, t) == Cardinality({i \in DOMAIN tracks : tracks[i] = t})

\* sum of max(0, count - 1) over the tracks ts, for the sessions of one slot
RECURSIVE SumDoublings(_, _)
SumDoublings(tracks, ts) ==
    IF ts = {} THEN 0
    ELSE LET t == CHOOSE x \in ts : TRUE
             c == TrackCount(tracks, t)
         IN (IF c > 1 THEN c - 1 ELSE 0) + SumDoublings(tracks, ts \ {t})

\* the same, summed over the slots ks
RECURSIVE SumSlots(_)
SumSlots(ks) ==
    IF ks = {} THEN 0
    ELSE LET k == CHOOSE x \in ks : TRUE
         IN SumDoublings(TracksIn(k), AllTracks) + SumSlots(ks \ {k})

\* C16: the statistics hold, for every slot and track, the number of catalog
\* sessions of that track assigned to the slot (a track that does not occur
\* has no entry, which a Counter reads as 0); total_doublings is the sum of
\* max(0, count - 1) over all (slot, track) pairs; ids outside the catalog
\* are counted nowhere.
C16_TrackStats ==
    /\ DOMAIN stats.stats = DOMAIN schedule
    /\ \A k \in DOMAIN schedule :
           /\ DOMAIN stats.stats[k] \subseteq AllTracks
           /\ LET tracks == TracksIn(k)
              IN \A t \in AllTracks :
                     TrackCount(tracks, t)
                         = IF t \in DOMAIN stats.stats[k] THEN stats.stats[k][t] ELSE 0
    /\ stats.total_doublings = SumSlots(DOMAIN schedule)

\* a slot holds an id outside the catalog next to two sessions of one track
C16_Witness ==
    /\ lastOp.op = "overwrite"
    /\ \E k \in DOMAIN schedule :
           /\ \E i \in 1..Len(schedule[k]) : IdAt(k, i) \notin CatalogIds
           /\ \E t \in AllTracks : TrackCount(TracksIn(k), t) >= 2
    /\ stats.total_doublings > 0

AllSpeakers == {sessions[i].speakers : i \in DOMAIN sessions}

\* rows of the catalog labelled with one speaker string
SessionsOf(speaker) == {i \in DOMAIN sessions : sessions[i].speakers = speaker}

\* the j-th row, from the top, among a set of rows
NthRow(rows, j) == CHOOSE i \in rows : Cardinality({x \in rows : x < i}) = j - 1

\* decimal digits of a natural number, most significant first
RECURSIVE Digits(_)
Digits(n) == IF n < 10 THEN <<n>> ELSE Append(Digits(n \div 10), n % 10)

\* lexicographic order of sequences of numbers
LexLess(a, b) ==
    \E i \in 1..Len(b) :
        /\ i <= Len(a) + 1
        /\ \A j \in 1..(i - 1) : a[j] = b[j]
        /\ (i = Len(a) + 1 \/ a[i] < b[i])

\* order of two id strings as Python compares str values
IdLess(s1, s2) ==
    LET num(sid) == CHOOSE n \in 0..(NumSessions + 1) : ToString(n) = sid
    IN LexLess(Digits(num(s1)), Digits(num(s2)))

\* the result names exactly the speakers with more than one session, each
\* with all the ids of their sessions
MultiSpeakersComplete ==
    /\ DOMAIN multi_speakers = {sp \in AllSpeakers : Cardinality(SessionsOf(sp)) > 1}
    /\ \A sp \in DOMAIN multi_speakers :
           /\ Len(multi_speakers[sp]) = Cardinality(SessionsOf(sp))
           /\ Range(multi_speakers[sp]) = {sessions[i].id : i \in SessionsOf(sp)}

\* C17 (as stated): ... and each sequence of ids is in sorted order.
C17_SortedIds ==
    /\ MultiSpeakersComplete
    /\ \A sp \in DOMAIN multi_speakers : \A a, b \in DOMAIN multi_speakers[sp] :
           a < b => IdLess(multi_speakers[sp][a], multi_speakers[sp][b])

\* C17 (amended): find_multi_session_speakers returns exactly the speaker
\* strings that label more than one session of the catalog, and for each of
\* them the ids of all that speaker's sessions in the order in which the
\* sessions appear in the catalog.
C17_MultiSpeakers ==
    /\ MultiSpeakersComplete
    /\ \A sp \in DOMAIN multi_speakers : \A j \in DOMAIN multi_speakers[sp] :
           multi_speakers[sp][j] = sessions[NthRow(SessionsOf(sp), j)].id

\* a speaker has two sessions whose rows are not in the order of their ids
C17_Witness ==
    \E sp \in DOMAIN multi_speakers :
        /\ Len(multi_speakers[sp]) = 2
        /\ IdLess(multi_speakers[sp][2], multi_speakers[sp][1])

(***************************************************************************)
(* The error list of validate_schedule (checked under Spec)                *)
(***************************************************************************)
HasError(P(_)) == \E i \in DOMAIN errors : P(errors[i])

SlotCountViolated == Cardinality(DOMAIN schedule) # ExpectedSlots
SlotSizeViolated(k) == Len(schedule[k]) # ExpectedRooms
\* position by position, the speaker of the session assigned to slot k, or
\* NoSpeaker where the id is not in the catalog
NoSpeaker == [none |-> TRUE]
SlotSpeakers(k) ==
    <<>> \o [i \in 1..Len(schedule[k]) |->
                IF IdAt(k, i) \in CatalogIds THEN [name |-> SpeakerOfId(IdAt(k, i))]
                ELSE NoSpeaker]

SpeakerViolated(k) ==
    LET sp == SlotSpeakers(k)
    IN \E i, j \in DOMAIN sp : i < j /\ sp[i] # NoSpeaker /\ sp[i] = sp[j]
CoverageViolated == CatalogIds \ {IdAt(c[1], c[2]) : c \in Positions} # {}
\* some id stands at two positions: fewer ids than positions
DuplicateViolated ==
    Cardinality({IdAt(c[1], c[2]) : c \in Positions}) < Cardinality(Positions)

\* C18: every violated constraint has its error in the list, whatever else
\* is violated: the slot count, the size of each slot, a speaker twice in a
\* slot, each assigned id outside the catalog, the coverage of the catalog
\* and the duplicate assignment.
C18_CollectAll ==
    /\ SlotCountViolated => HasError(LAMBDA e : e.kind = "slot_count")
    /\ \A k \in DOMAIN schedule :
           /\ SlotSizeViolated(k) => HasError(LAMBDA e : e.kind = "slot_size" /\ e.slot = k)
           /\ SpeakerViolated(k) => HasError(LAMBDA e : e.kind = "speaker_twice" /\ e.slot = k)
    /\ \A c \in Positions :
           IdAt(c[1], c[2]) \notin CatalogIds =>
               HasError(LAMBDA e : e.kind = "unknown_id" /\ e.slot = c[1]
                                                        /\ e.sid = IdAt(c[1], c[2]))
    /\ CoverageViolated => HasError(LAMBDA e : e.kind = "missing")
    /\ DuplicateViolated => HasError(LAMBDA e : e.kind = "duplicate")

\* the slot count, a slot size, an unknown id and the coverage are violated
\* by one schedule
C18_Witness ==
    /\ SlotCountViolated
    /\ \E k \in DOMAIN schedule : SlotSizeViolated(k)
    /\ UnknownAssigned # {}
    /\ CoverageViolated
    /\ Len(errors) >= 4

\* the part of validate_schedule an error comes from
Phase(e) ==
    IF e.kind = "slot_count" THEN 0
    ELSE IF e.kind \in {"slot_size", "speaker_twice", "unknown_id"} THEN 1
    ELSE IF e.kind = "missing" THEN 2
    ELSE IF e.kind = "extra" THEN 3
    ELSE 4

\* order of two slot names as strings: they share the prefix "slot_", so it
\* is the order of the numerals behind it
NameLess(k1, k2) ==
    LET num(k) == CHOOSE n \in 1..(ExpectedSlots + 3) : k = "slot_" \o ToString(n)
    IN LexLess(Digits(num(k1)), Digits(num(k2)))

\* the error, if any, that position i of slot k gives rise to, sp being the
\* speakers of the slot
PosErr(k, sp, i) ==
    IF sp[i] = NoSpeaker THEN <<UnknownIdError(k, IdAt(k, i))>>
    ELSE IF \E j \in 1..(i - 1) : sp[j] = sp[i]
    THEN <<SpeakerError(k, sp[i].name)>>
    ELSE <<>>

RECURSIVE PosErrsUpTo(_, _, _)
PosErrsUpTo(k, sp, n) ==
    IF n = 0 THEN <<>> ELSE PosErrsUpTo(k, sp, n - 1) \o PosErr(k, sp, n)

\* C19: the errors come in the order of the checks: the slot-count error
\* first; then the errors of the slots, slot after slot in ascending string
\* order of the names, the size error of a slot before its speaker-conflict
\* and unknown-id errors, and these in the order of the positions they come
\* from; then the missing-sessions error and, behind it, the duplicate-ids
\* error (the aggregate unknown-ids error stands between the two); and a
\* second call on the same schedule and catalog returns the same list.
C19_ErrorOrder ==
    /\ \A a, b \in DOMAIN errors :
           a < b =>
               /\ Phase(errors[a]) <= Phase(errors[b])
               /\ Phase(errors[a]) = Phase(errors[b]) => Phase(errors[a]) = 1
               /\ (Phase(errors[a]) = 1 /\ Phase(errors[b]) = 1) =>
                      IF errors[a].slot = errors[b].slot
                      THEN errors[b].kind # "slot_size"
                      ELSE NameLess(errors[a].slot, errors[b].slot)
    /\ \A k \in DOMAIN schedule :
           SelectSeq(errors, LAMBDA e : e.kind \in {"speaker_twice", "unknown_id"} /\ e.slot = k)
               = PosErrsUpTo(k, SlotSpeakers(k), Len(schedule[k]))
    /\ errors = validate_schedule(schedule, sessions).errors

\* slot_10 has an error and so has a slot that sorts behind it, between the
\* slot-count error and the missing-sessions error
C19_Witness ==
    /\ Len(errors) >= 4
    /\ errors[1].kind = "slot_count"
    /\ \E a, b \in DOMAIN errors :
           /\ a < b
           /\ Phase(errors[a]) = 1 /\ errors[a].slot = "slot_10"
           /\ Phase(errors[b]) = 1 /\ errors[b].slot = "slot_7"
    /\ HasError(LAMBDA e : e.kind = "missing")

(***************************************************************************)
(* The diff when a slot or a position is missing (checked under ViewSpec)  *)
(***************************************************************************)
\* C20: the diff holds only coordinates whose slot is a key of the current
\* version's schedule, and for every position of such a slot's sequence the
\* coordinate is in the diff exactly when the two versions differ there, a
\* slot or position missing on one side being different from any id.
C20_DiffMissing ==
    (page # <<>> /\ showDiff /\ curIdx > 0) =>
        /\ \A c \in diffs : c[1] \in DOMAIN CurSchedule
        /\ \A c \in Coordinates(CurSchedule) :
               c \in diffs <=> EntryAt(CurSchedule, c) # EntryAt(PrevSchedule, c)

(***************************************************************************)
(* save_version without mutual exclusion (checked under ConcurrentSpec)    *)
(***************************************************************************)
\* two calls have returned the same version number
SameNumberTwice ==
    \E i, j \in DOMAIN returned : i < j /\ returned[i].version = returned[j].version

\* every call has returned and the file holds fewer records than were saved
RecordLost ==
    /\ \A w \in Writers : pc[w] = "idle"
    /\ ~torn
    /\ Len(load_versions(store)) < Len(returned)

\* C21: a version number is returned twice, or a saved record is missing
\* from the file, only when one call loaded the file before another call,
\* which had loaded it too, had rewritten it; calls that run one after the
\* other never lead there.  (That the state is reached when the calls do
\* overlap is C21_Witness.)
C21_LostUpdate == (SameNumberTwice \/ RecordLost) => stale

\* both calls loaded the empty store, both returned 1, and the file holds
\* the record of the second call only
C21_Witness ==
    /\ stale
    /\ \A w \in Writers : pc[w] = "idle"
    /\ ~torn
    /\ Len(returned) = 2
    /\ returned[1].version = returned[2].version
    /\ returned[1].schedule # returned[2].schedule
    /\ Len(store.versions) = 1
    /\ store.versions[1].schedule = returned[2].schedule

(***************************************************************************)
(* Properties of process_swap.py (checked under SwapSpec)                  *)
(***************************************************************************)
\* the body holds JSON text the script can find and parse into a schedule
HoldsSchedule(body) ==
    /\ body.fence # "none"
    /\ body.json.kind = "object"
    /\ (body.fence = "heading" \/ body.json.slot_1)

\* the schedule proposed in the body, ids as strings, passes validation
ProposalValid(body) ==
    validate_schedule([k \in DOMAIN body.json.value |->
                          [i \in DOMAIN body.json.value[k] |-> JStr(str(body.json.value[k][i]))]],
                      sessions).ok

Acceptable(body) ==
    ~body.empty /\ body.marker /\ HoldsSchedule(body) /\ ProposalValid(body)

\* C22: process_swap.py ends with status 0 and output/schedule.json holding
\* the proposed schedule only when the body is not empty, holds the marker
\* and a parsable schedule, and that schedule passed validate_schedule; in
\* every other case it ends with a failure status and the file is what it
\* was before the run.
C22_SwapGate ==
    swap.done =>
        IF Acceptable(swap.body)
        THEN /\ swap.status = 0
             /\ schedule_json.exists
             /\ \A k \in DOMAIN swap.body.json.value :
                    /\ k \in DOMAIN schedule_json.schedule
                    /\ \A i \in DOMAIN swap.body.json.value[k] :
                           str(schedule_json.schedule[k][i]) = str(swap.body.json.value[k][i])
        ELSE /\ swap.status # 0
             /\ schedule_json = swap.before

\* a proposal that fails validation was turned down after one that was
\* written had replaced the file
C22_Witness ==
    /\ swap.done
    /\ swap.status # 0
    /\ ~swap.body.empty /\ swap.body.marker /\ HoldsSchedule(swap.body)
    /\ ~ProposalValid(swap.body)
    /\ schedule_json = swap.before
    /\ schedule_json.schedule # schedule

====
